---- MODULE Spec2Model ----
(***************************************************************************)
(* A model of the two utilities of the repository:                         *)
(*   - jsondiff.py : difference / list_differences, pure recursive         *)
(*     functions over JSON values, driven by main();                       *)
(*   - skmeans.py  : IterativeSphericalKMeans, a small stateful object.    *)
(* SpecDiff is the state machine of jsondiff's main(); Spec is the state   *)
(* machine of one IterativeSphericalKMeans object under arbitrary calls.   *)
(***************************************************************************)
EXTENDS Integers, Sequences, FiniteSets, TLC

VARIABLES
    \* jsondiff.main
    pc,          \* position in main(): "idle", "loaded", "diffed", "listed", "printed"
    obj_a,       \* json.load(file_a)
    obj_b,       \* json.load(file_b)
    diff,        \* difference(obj_a, obj_b)
    rows,        \* the lines list_differences printed, in order
    key_stack,   \* list_differences' key_stack once the outermost call returned
    \* IterativeSphericalKMeans
    k, num_records, next_to_replace, records, medoids, classes,
    \* history of the calls made on the clusterer
    last,        \* the last call: its name and argument, and for iterate
                 \* the k and the medoids it started from
    n_added,     \* number of add_record calls so far
    fifo         \* the last min(n_added, max_records) vectors added, oldest first

diffVars == <<pc, obj_a, obj_b, diff, rows, key_stack>>
kmVars   == <<k, num_records, next_to_replace, records, medoids, classes>>
histVars == <<last, n_added, fifo>>
vars     == <<diffVars, kmVars, histVars>>

----------------------------------------------------------------------------
(* Bounds of the model *)

MaxLen == 2        \* longest JSON list drawn as input
MaxAdds == 4       \* add_record calls followed by the history

----------------------------------------------------------------------------
(* JSON values as json.load builds them: a Python object with its type.   *)
(* Numbers carry their value in halves, so that int 1 and float 1.0 have   *)
(* the same numeric value (2) and different types, and 1.5 is a float (3). *)

None         == [kind |-> "NoneType", val |-> "None"]
BoolV(b)     == [kind |-> "bool", val |-> b]
IntV(n)      == [kind |-> "int", val |-> 2 * n]
FloatV(h)    == [kind |-> "float", val |-> h]
StrV(s)      == [kind |-> "str", val |-> s]
ListV(s)     == [kind |-> "list", val |-> s]
DictV(f)     == [kind |-> "dict", val |-> f]

A_SIDE == "A_SIDE"
B_SIDE == "B_SIDE"

\* a variant of type() that gives int and float one numeric kind
type_numeric_kind(v) == IF v.kind \in {"int", "float"} THEN "number" ELSE v.kind

\* Python's type(v)
type(v) == v.kind

\* d.get(key) of a dict; None when the key is missing
get(d, key) == IF key \in DOMAIN d.val THEN d.val[key] ELSE None

\* the i-th (1-based) item zip_longest yields for a list; None past its end
zip_item(l, i) == IF i <= Len(l.val) THEN l.val[i] ELSE None

Max(m, n) == IF m >= n THEN m ELSE n
Min(m, n) == IF m <= n THEN m ELSE n

\* a == b of two leaves: numbers are equal when their values are
py_eq(a, b) ==
    IF a.kind \in {"int", "float"} /\ b.kind \in {"int", "float"}
        THEN a.val = b.val
        ELSE a = b

RECURSIVE difference(_, _)
difference(a_side, b_side) ==
    IF b_side = None THEN DictV(A_SIDE :> a_side)
    ELSE IF a_side = None THEN DictV(B_SIDE :> b_side)
    ELSE IF type(a_side) # type(b_side)
        THEN DictV(A_SIDE :> a_side @@ B_SIDE :> b_side)
    ELSE IF type(a_side) = "dict"
        THEN DictV([key \in DOMAIN a_side.val \cup DOMAIN b_side.val |->
                        difference(get(a_side, key), get(b_side, key))])
    ELSE IF type(a_side) = "list"
        THEN ListV([i \in 1..Max(Len(a_side.val), Len(b_side.val)) |->
                        difference(zip_item(a_side, i), zip_item(b_side, i))])
    ELSE IF py_eq(a_side, b_side) THEN a_side
    ELSE DictV(A_SIDE :> a_side @@ B_SIDE :> b_side)

----------------------------------------------------------------------------
(* list_differences: the traversal threads its mutable key_stack and its   *)
(* output through the calls: st = [key_stack, out].                        *)

\* the order "for key in diff" visits the keys of a dict: fixed for a run
RECURSIVE KeyOrder(_)
KeyOrder(S) ==
    IF S = {} THEN <<>>
    ELSE LET key == CHOOSE x \in S : TRUE IN <<key>> \o KeyOrder(S \ {key})

\* ":".join(key_stack)
RECURSIVE join(_)
join(stack) ==
    IF Len(stack) = 0 THEN ""
    ELSE IF Len(stack) = 1 THEN stack[1]
    ELSE stack[1] \o ":" \o join(Tail(stack))

\* "List[{0}]".format(i)
list_segment(i) == "List[" \o ToString(i) \o "]"

\* the line print() writes for a marker: breadcrumb, file_b value, file_a value
row(stack, marker) ==
    [crumb |-> join(stack), b |-> get(marker, B_SIDE), a |-> get(marker, A_SIDE)]

push(st, seg) == [st EXCEPT !.key_stack = Append(@, seg)]

\* a traversal that forgets key_stack.pop()
pop_forgotten(st) == st

\* key_stack.pop()
pop(st) == [st EXCEPT !.key_stack = SubSeq(@, 1, Len(@) - 1)]

RECURSIVE list_differences(_, _), for_keys(_, _, _), for_items(_, _, _)
list_differences(d, st) ==
    IF type(d) = "dict" THEN
        IF B_SIDE \in DOMAIN d.val \/ A_SIDE \in DOMAIN d.val
            THEN [st EXCEPT !.out = Append(@, row(st.key_stack, d))]
            ELSE for_keys(d, KeyOrder(DOMAIN d.val), st)
    ELSE IF type(d) = "list" THEN for_items(d, 1, st)
    ELSE st

\* for key in diff: append, recurse, pop
for_keys(d, keys, st) ==
    IF keys = <<>> THEN st
    ELSE for_keys(d, Tail(keys),
                  pop(list_differences(d.val[Head(keys)], push(st, Head(keys)))))

\* for i, v in enumerate(diff): append, recurse, pop (i is 1-based here)
for_items(d, i, st) ==
    IF i > Len(d.val) THEN st
    ELSE for_items(d, i + 1,
                   pop(list_differences(d.val[i], push(st, list_segment(i - 1)))))

----------------------------------------------------------------------------
(* The inputs of main(): JSON documents without the reserved keys.         *)

Keys == {"x", "y"}

Scalars == {None, BoolV(TRUE), IntV(1), IntV(2), FloatV(2), FloatV(3), StrV("1")}

ListsOver(S) == {ListV(s) : s \in UNION {[1..n -> S] : n \in 0..MaxLen}}
DictsOver(S) == {DictV(f) : f \in UNION {[D -> S] : D \in SUBSET Keys}}

Level1 == Scalars \cup ListsOver(Scalars) \cup DictsOver(Scalars)

\* the children of the documents of depth 2
Inner == {None, IntV(1), ListV(<<IntV(1), IntV(2)>>), ListV(<<IntV(1), IntV(3)>>),
          DictV("x" :> IntV(1))}

Documents == Level1 \cup ListsOver(Inner) \cup DictsOver(Inner)

NoDiff == None

----------------------------------------------------------------------------
(* jsondiff.main(): load both files, take the difference, then either list *)
(* it (-l) or pretty-print it.                                             *)

\* diff = difference(obj_a, obj_b)
Difference ==
    /\ pc = "loaded"
    /\ diff' = difference(obj_a, obj_b)
    /\ pc' = "diffed"
    /\ UNCHANGED <<obj_a, obj_b, rows, key_stack>>

\* list_differences(diff), key_stack defaulting to []
ListDifferences ==
    /\ pc = "diffed"
    /\ LET st == list_differences(diff, [key_stack |-> <<>>, out |-> <<>>])
       IN  /\ rows' = st.out
           /\ key_stack' = st.key_stack
    /\ pc' = "listed"
    /\ UNCHANGED <<obj_a, obj_b, diff>>

\* pprint(diff)
PrettyPrint ==
    /\ pc = "diffed"
    /\ pc' = "printed"
    /\ UNCHANGED <<obj_a, obj_b, diff, rows, key_stack>>

----------------------------------------------------------------------------
(* Vectors of num_features = 2 reals.  [x, y, n] is the vector             *)
(* (x, y) / sqrt(n), kept in lowest terms, so that unit vectors with       *)
(* irrational coordinates (normalised sums) are exact.                     *)

\* the constructor's max_k and max_records, bounds of the model like MaxLen
max_k == 2
max_records == 2

Abs(i) == IF i < 0 THEN -i ELSE i

Vec(x, y, n) == [x |-> x, y |-> y, n |-> n]
Raw(x, y) == Vec(x, y, 1)
Zero == Raw(0, 0)
Uninit == Vec(0, 0, 0)     \* a row of np.empty never written; never read

\* lowest terms: the largest g with g | x, g | y and g*g | n taken out
Canon(v) ==
    IF v.x = 0 /\ v.y = 0 THEN Zero
    ELSE LET ok(g) == v.x % g = 0 /\ v.y % g = 0 /\ v.n % (g * g) = 0
             top == Max(Abs(v.x), Abs(v.y))
             g == CHOOSE g \in 1..top : ok(g) /\ \A h \in (g + 1)..top : ~ok(h)
         IN  Vec(v.x \div g, v.y \div g, v.n \div (g * g))

\* the squared L2 norm is (x*x + y*y) / n
IsUnit(v) == v.n > 0 /\ v.x * v.x + v.y * v.y = v.n

\* sklearn.preprocessing.normalize of one row: x / ||x||, a zero row is left zero
normalize(v) ==
    IF v.x = 0 /\ v.y = 0 THEN Zero
    ELSE Canon(Vec(v.x, v.y, v.x * v.x + v.y * v.y))

\* np.abs
np_abs(v) == Vec(Abs(v.x), Abs(v.y), v.n)

\* the denominator of a vector with rational coordinates
Denominator(v) == CHOOSE d \in 1..v.n : d * d = v.n

\* u + v for vectors with rational coordinates
Add(u, v) ==
    LET du == Denominator(u)
        dv == Denominator(v)
    IN  Canon(Vec(u.x * dv + v.x * du, u.y * dv + v.y * du, (du * dv) * (du * dv)))

\* u . v is p / sqrt(n)
Dot(u, v) == [p |-> u.x * v.x + u.y * v.y, n |-> u.n * v.n]

\* s > t for reals p / sqrt(n): compare sign(p) * p * p / n
SignedSquare(p) == IF p < 0 THEN -(p * p) ELSE p * p
Greater(s, t) == SignedSquare(s.p) * t.n > SignedSquare(t.p) * s.n

\* what np.random.randn(2) is drawn from, and the vectors add_record is given
RandnDraws == {Raw(-3, 4), Raw(1, -1)}
RecordInputs == {Raw(6, 8), Raw(-3, -4)}

\* _random_angle(), for the draw randn returned
_random_angle(draw) == normalize(np_abs(draw))

RandomAngles == {_random_angle(d) : d \in RandnDraws}

----------------------------------------------------------------------------
(* IterativeSphericalKMeans.  _records, _medoids and _classes are arrays   *)
(* indexed from 0; the accessors records(), medoids() and classes() are    *)
(* the slices below num_records and below k.                               *)

MedoidIdx == 0..(max_k - 1)
RecordIdx == 0..(max_records - 1)

\* the arguments the calls are made with
InitialKs == 0..(max_k + 1)
NewKs == (-1)..(max_k + 1)

\* a clamp that forgets the lower bound
clamp_k_no_floor(new_k) == IF new_k > max_k THEN max_k ELSE new_k

\* the clamp at the head of set_k
clamp_k(new_k) == IF new_k > max_k THEN max_k ELSE IF new_k < 1 THEN 1 ELSE new_k

\* the clamp of __init__
init_k(initial_k) ==
    IF initial_k > max_k THEN max_k ELSE IF initial_k < 1 THEN 1 ELSE initial_k

\* the record of a call, without and with the k and medoids it started from
Call(op, arg) == [op |-> op, arg |-> arg, k |-> 0, medoids |-> <<>>]
CallFrom(op, arg) == [op |-> op, arg |-> arg, k |-> k, medoids |-> medoids]

\* __init__: the state after construction, for the draws of _random_angle
Init ==
    /\ \E initial_k \in InitialKs, draws \in [MedoidIdx -> RandnDraws] :
        /\ k = init_k(initial_k)
        /\ medoids = [i \in MedoidIdx |->
                        IF i < k THEN _random_angle(draws[i]) ELSE Zero]
        /\ last = Call("__init__", initial_k)
    /\ num_records = 0
    /\ next_to_replace = 0
    /\ records = [j \in RecordIdx |-> Uninit]
    /\ classes = [j \in RecordIdx |-> 0]
    /\ n_added = 0
    /\ fifo = <<>>
    /\ pc = "idle" /\ obj_a = None /\ obj_b = None /\ diff = NoDiff
    /\ rows = <<>> /\ key_stack = <<>>

\* argmax over the medoids below k of one record's dot products: the scan
\* keeps the first index that holds the maximum
RECURSIVE argmax_scan(_, _, _)
argmax_scan(rec, i, best) ==
    IF i >= k THEN best
    ELSE argmax_scan(rec, i + 1,
            IF Greater(Dot(rec, medoids[i]), Dot(rec, medoids[best])) THEN i ELSE best)

\* an argmax that keeps the last index that holds the maximum
RECURSIVE argmax_last(_, _, _)
argmax_last(rec, i, best) ==
    IF i >= k THEN best
    ELSE argmax_last(rec, i + 1,
            IF Greater(Dot(rec, medoids[best]), Dot(rec, medoids[i])) THEN best ELSE i)
argmax_takes_last(rec) == argmax_last(rec, 1, 0)

\* records().dot(medoids().transpose()).argmax(axis=1), one row
argmax(rec) == argmax_scan(rec, 1, 0)

\* ((classes == i).reshape(-1, 1) * records).sum(axis=0), over the rows below n
RECURSIVE masked_sum(_, _, _)
masked_sum(cls, i, n) ==
    IF n = 0 THEN Zero
    ELSE Add(masked_sum(cls, i, n - 1),
             IF cls[n - 1] = i THEN records[n - 1] ELSE Zero)

\* the draw made for medoid i; none is made when _random_angle is not called
Draw(draws, i) == IF i \in DOMAIN draws THEN draws[i] ELSE Zero

\* an update that keeps the zero vector normalize returns for a zero sum
new_medoid_keeps_zero(cls, i, draw) == normalize(masked_sum(cls, i, num_records))

\* the body of iterate's loop for medoid i
new_medoid(cls, i, draw) ==
    LET medoid == normalize(masked_sum(cls, i, num_records))
    IN  IF medoid = Zero THEN _random_angle(draw) ELSE medoid

\* an iterate that writes every medoid of the array, not only medoids()
iterate_all_medoids(cls, draws) ==
    [i \in MedoidIdx |-> new_medoid(cls, i, Draw(draws, i))]

\* the medoids after iterate's update loop
iterate_medoids(cls, draws) ==
    [i \in MedoidIdx |->
        IF i < k THEN new_medoid(cls, i, Draw(draws, i)) ELSE medoids[i]]

\* the medoids for which iterate calls _random_angle
Degenerate(cls) ==
    {i \in MedoidIdx : i < k /\ masked_sum(cls, i, num_records) = Zero}

iterate ==
    /\ LET cls == [j \in RecordIdx |->
                        IF j < num_records THEN argmax(records[j]) ELSE classes[j]]
       IN  \E draws \in [Degenerate(cls) -> RandnDraws] :
            /\ classes' = cls
            /\ medoids' = iterate_medoids(cls, draws)
    /\ last' = CallFrom("iterate", 0)
    /\ UNCHANGED <<k, num_records, next_to_replace, records, n_added, fifo>>
    /\ UNCHANGED diffVars

\* a raise of k that leaves the stored medoid as it is
RECURSIVE raise_k_keeps_stored(_, _, _)
raise_k_keeps_stored(st, new_k, draws) ==
    IF new_k > st.k
        THEN raise_k_keeps_stored([st EXCEPT !.k = @ + 1], new_k, draws)
        ELSE st

\* while new_k > self.k: st = [k, medoids]
RECURSIVE raise_k(_, _, _)
raise_k(st, new_k, draws) ==
    IF new_k > st.k
        THEN raise_k([k |-> st.k + 1,
                      medoids |-> [st.medoids EXCEPT ![st.k] = _random_angle(draws[st.k])]],
                     new_k, draws)
        ELSE st

\* while new_k < self.k
RECURSIVE lower_k(_, _)
lower_k(st, new_k) ==
    IF new_k < st.k THEN lower_k([st EXCEPT !.k = @ - 1], new_k) ELSE st

set_k(new_k) ==
    /\ \E draws \in [k..(clamp_k(new_k) - 1) -> RandnDraws] :
        LET st == lower_k(raise_k([k |-> k, medoids |-> medoids],
                                  clamp_k(new_k), draws),
                          clamp_k(new_k))
        IN  /\ k' = st.k
            /\ medoids' = st.medoids
    /\ last' = Call("set_k", new_k)
    /\ UNCHANGED <<num_records, next_to_replace, records, classes, n_added, fifo>>
    /\ UNCHANGED diffVars

shuffle ==
    /\ \E draws \in [0..(k - 1) -> RandnDraws] :
        medoids' = [i \in MedoidIdx |->
                        IF i < k THEN _random_angle(draws[i]) ELSE medoids[i]]
    /\ last' = Call("shuffle", 0)
    /\ UNCHANGED <<k, num_records, next_to_replace, records, classes, n_added, fifo>>
    /\ UNCHANGED diffVars

\* a cursor that is never wrapped
wrap_forgotten(next) == next

\* if self.next_to_replace >= self.max_records: self.next_to_replace = 0
wrap(next) == IF next >= max_records THEN 0 ELSE next

\* the queue of the vectors added, bounded by max_records
enqueue(q, v) == IF Len(q) < max_records THEN Append(q, v) ELSE Append(Tail(q), v)

add_record(record) ==
    /\ n_added < MaxAdds
    /\ LET nrecord == normalize(record)
       IN  /\ records' = [records EXCEPT ![next_to_replace] = nrecord]
           /\ fifo' = enqueue(fifo, nrecord)
    /\ next_to_replace' = wrap(next_to_replace + 1)
    /\ num_records' = IF num_records < max_records THEN num_records + 1 ELSE num_records
    /\ n_added' = n_added + 1
    /\ last' = Call("add_record", 0)
    /\ UNCHANGED <<k, medoids, classes>>
    /\ UNCHANGED diffVars

Next ==
    \/ \E record \in RecordInputs : add_record(record)
    \/ iterate
    \/ \E new_k \in NewKs : set_k(new_k)
    \/ shuffle

Spec == Init /\ [][Next]_vars

\* jsondiff's main() after both files are loaded; no clusterer is built
InitDiff ==
    /\ pc = "loaded"
    /\ obj_a \in Documents
    /\ obj_b \in Documents
    /\ diff = NoDiff
    /\ rows = <<>>
    /\ key_stack = <<>>
    /\ k = 0 /\ num_records = 0 /\ next_to_replace = 0
    /\ records = <<>> /\ medoids = <<>> /\ classes = <<>>
    /\ last = Call("none", 0) /\ n_added = 0 /\ fifo = <<>>

NextDiff ==
    \/ Difference /\ UNCHANGED <<kmVars, histVars>>
    \/ ListDifferences /\ UNCHANGED <<kmVars, histVars>>
    \/ PrettyPrint /\ UNCHANGED <<kmVars, histVars>>

SpecDiff == InitDiff /\ [][NextDiff]_vars

----------------------------------------------------------------------------
(* Properties of jsondiff, checked under SpecDiff.                         *)

\* a mapping that holds A_SIDE or B_SIDE
IsMarker(v) == v.kind = "dict" /\ (A_SIDE \in DOMAIN v.val \/ B_SIDE \in DOMAIN v.val)

RECURSIVE HasMarker(_)
HasMarker(v) ==
    \/ IsMarker(v)
    \/ v.kind \in {"dict", "list"} /\ \E key \in DOMAIN v.val : HasMarker(v.val[key])

OnlyA(v) == DictV(A_SIDE :> v)
OnlyB(v) == DictV(B_SIDE :> v)
Both(a, b) == DictV(A_SIDE :> a @@ B_SIDE :> b)

Diffed == pc \in {"diffed", "listed", "printed"}

\* C1: difference(x, x) is x itself and holds no difference marker anywhere.
C1_Reflexive ==
    (Diffed /\ obj_a = obj_b) => (diff = obj_a /\ ~HasMarker(diff))

\* C2: for two mappings the result's keys are the union of the keys, for two
\* sequences its length is the longer length; a key or position present only
\* in a holds a marker with only A_SIDE: a's value, one present only in b a
\* marker with only B_SIDE: b's value, whatever the value (null included).
C2_OneSidedPresence ==
    Diffed =>
        /\ (obj_a.kind = "dict" /\ obj_b.kind = "dict") =>
            /\ diff.kind = "dict"
            /\ DOMAIN diff.val = DOMAIN obj_a.val \cup DOMAIN obj_b.val
            /\ \A key \in DOMAIN obj_a.val \ DOMAIN obj_b.val :
                    diff.val[key] = OnlyA(obj_a.val[key])
            /\ \A key \in DOMAIN obj_b.val \ DOMAIN obj_a.val :
                    diff.val[key] = OnlyB(obj_b.val[key])
        /\ (obj_a.kind = "list" /\ obj_b.kind = "list") =>
            /\ diff.kind = "list"
            /\ Len(diff.val) = Max(Len(obj_a.val), Len(obj_b.val))
            /\ \A i \in (Len(obj_b.val) + 1)..Len(obj_a.val) :
                    diff.val[i] = OnlyA(obj_a.val[i])
            /\ \A i \in (Len(obj_a.val) + 1)..Len(obj_b.val) :
                    diff.val[i] = OnlyB(obj_b.val[i])

IsNumber(v) == v.kind \in {"int", "float"}
StringAgainstNumber ==
    \/ obj_a.kind = "str" /\ IsNumber(obj_b)
    \/ IsNumber(obj_a) /\ obj_b.kind = "str"
IntAgainstFloat ==
    \/ obj_a.kind = "int" /\ obj_b.kind = "float"
    \/ obj_a.kind = "float" /\ obj_b.kind = "int"

\* C3 as stated: a string against a number gives a two-sided marker; an
\* integer against a floating-point number is compared by value, the scalar
\* unchanged when numerically equal and a two-sided marker otherwise.
C3_IntFloatByValue ==
    Diffed =>
        /\ StringAgainstNumber => diff = Both(obj_a, obj_b)
        /\ IntAgainstFloat =>
            diff = (IF obj_a.val = obj_b.val THEN obj_a ELSE Both(obj_a, obj_b))

\* C3 amended: a string against a number gives a two-sided marker, and so
\* does an integer against a floating-point number, numerically equal or not.
C3_KindMismatch ==
    Diffed =>
        /\ StringAgainstNumber => diff = Both(obj_a, obj_b)
        /\ IntAgainstFloat => diff = Both(obj_a, obj_b)

\* difference(1, 1.0) was taken: the two numbers are equal and of two kinds
C3_Witness ==
    /\ Diffed
    /\ obj_a = IntV(1) /\ obj_b = FloatV(2)
    /\ diff = Both(IntV(1), FloatV(2))

\* the marker nodes of a diff with the path to each; below a marker nothing
\* is looked at
RECURSIVE MarkerNodes(_, _)
MarkerNodes(v, path) ==
    IF IsMarker(v) THEN {<<path, v>>}
    ELSE IF v.kind = "dict"
        THEN UNION {MarkerNodes(v.val[key], Append(path, key)) : key \in DOMAIN v.val}
    ELSE IF v.kind = "list"
        THEN UNION {MarkerNodes(v.val[i], Append(path, list_segment(i - 1))) :
                        i \in DOMAIN v.val}
    ELSE {}

\* C4: list_differences emits exactly one row per marker node of the diff and
\* no other row; the row holds the path from the root to the marker, the
\* marker's B_SIDE value and its A_SIDE value (None for a missing side); the
\* breadcrumb stack is back to its entry content when the traversal returns.
C4_OneRowPerMarker ==
    pc = "listed" =>
        LET nodes == MarkerNodes(diff, <<>>)
        IN  /\ Len(rows) = Cardinality(nodes)
            /\ {rows[i] : i \in DOMAIN rows} =
                    {[crumb |-> join(m[1]),
                      b |-> IF B_SIDE \in DOMAIN m[2].val THEN m[2].val[B_SIDE] ELSE None,
                      a |-> IF A_SIDE \in DOMAIN m[2].val THEN m[2].val[A_SIDE] ELSE None] :
                        m \in nodes}
            /\ key_stack = <<>>

\* the listing of {"x": [1, 2]} against {"x": [1, 3]} is one row, x:List[1], 3, 2
C4_Witness ==
    /\ pc = "listed"
    /\ obj_a = DictV("x" :> ListV(<<IntV(1), IntV(2)>>))
    /\ obj_b = DictV("x" :> ListV(<<IntV(1), IntV(3)>>))
    /\ rows = <<[crumb |-> "x:List[1]", b |-> IntV(3), a |-> IntV(2)]>>

----------------------------------------------------------------------------
(* Properties of IterativeSphericalKMeans, checked under Spec.             *)

ClampInto(v, lo, hi) == IF v < lo THEN lo ELSE IF v > hi THEN hi ELSE v

\* C5: 1 <= k <= max_k in every reachable state, and __init__(initial_k) and
\* set_k(new_k) leave k equal to their argument clamped into [1, max_k].
C5_KWithinBounds ==
    /\ 1 <= k /\ k <= max_k
    /\ last.op \in {"__init__", "set_k"} => k = ClampInto(last.arg, 1, max_k)

\* set_k was called with a value below 1 and left k at 1
C5_Witness == last.op = "set_k" /\ last.arg < 1 /\ k = 1

\* the active records from the oldest to the newest, for n add_record calls
OldestFirst ==
    LET oldest == (n_added - num_records) % max_records
    IN  [i \in 1..num_records |-> records[(oldest + i - 1) % max_records]]

\* C6: after n add_record calls the active record count is min(n,
\* max_records), the write cursor is n mod max_records, and the active
\* records are the last min(n, max_records) vectors added, oldest evicted
\* first.
C6_RingBuffer ==
    /\ num_records = Min(n_added, max_records)
    /\ next_to_replace = n_added % max_records
    /\ OldestFirst = fifo

\* the buffer has wrapped and the newest record overwrote a different one
C6_Witness ==
    /\ n_added > max_records
    /\ num_records = max_records
    /\ last.op = "add_record"
    /\ fifo[1] # fifo[Len(fifo)]

\* C7 as stated: a centroid that held a stored value while inactive holds
\* the same value when set_k makes it active again.
C7_ReactivationKeepsValue ==
    [][(last'.op = "set_k" /\ k' > k) =>
            \A i \in k..(k' - 1) : medoids[i] # Zero => medoids'[i] = medoids[i]]_vars

\* C7 amended: a set_k that lowers k changes no stored centroid; a set_k that
\* raises k overwrites every centroid that becomes active, previously active
\* or not, with a random unit vector, and changes no other centroid.
C7_ReactivationRedraws ==
    [][last'.op = "set_k" =>
            /\ k' <= k => medoids' = medoids
            /\ \A i \in MedoidIdx :
                IF k <= i /\ i < k'
                    THEN medoids'[i] \in RandomAngles
                    ELSE medoids'[i] = medoids[i]]_vars

\* set_k has lowered k and the centroid just past k holds a value that is
\* not a random angle: the next raise of k is a reactivation
C7_Witness ==
    /\ last.op = "set_k"
    /\ k < max_k
    /\ medoids[k] \notin RandomAngles \cup {Zero}

\* the sum of the active records of class i
RECURSIVE SumOf(_)
SumOf(js) ==
    IF js = {} THEN Zero
    ELSE LET j == CHOOSE x \in js : TRUE IN Add(records[j], SumOf(js \ {j}))
Assigned(i) == {j \in RecordIdx : j < num_records /\ classes[j] = i}

\* C8: after iterate every active centroid is a unit vector, and one whose
\* assigned records sum to the zero vector is a random unit vector.
C8_UnitCentroids ==
    last.op = "iterate" =>
        \A i \in 0..(k - 1) :
            /\ IsUnit(medoids[i])
            /\ SumOf(Assigned(i)) = Zero => medoids[i] \in RandomAngles

\* iterate ran with records stored and left a centroid with no record
C8_Witness ==
    /\ last.op = "iterate"
    /\ num_records > 0
    /\ \E i \in 0..(k - 1) : Assigned(i) = {} /\ IsUnit(medoids[i])

\* the dot product of record j with centroid i as iterate found it
DotBefore(j, i) == Dot(records[j], last.medoids[i])

\* C9: after iterate the class of every active record is the lowest index
\* below k whose centroid, as it was before the update, has the largest dot
\* product with the record.
C9_StableArgmax ==
    last.op = "iterate" =>
        \A j \in 0..(num_records - 1) :
            /\ classes[j] \in 0..(k - 1)
            /\ \A i \in 0..(k - 1) : ~Greater(DotBefore(j, i), DotBefore(j, classes[j]))
            /\ \A i \in 0..(classes[j] - 1) :
                    Greater(DotBefore(j, classes[j]), DotBefore(j, i))

\* iterate found a record with the same dot product for centroids 0 and 1
C9_Witness ==
    /\ last.op = "iterate"
    /\ k >= 2
    /\ \E j \in 0..(num_records - 1) :
        /\ classes[j] = 0
        /\ ~Greater(DotBefore(j, 0), DotBefore(j, 1))
        /\ ~Greater(DotBefore(j, 1), DotBefore(j, 0))

\* C10: iterate leaves the stored records, the active record count, the
\* write cursor, k, the centroids from k on and the classes from the active
\* record count on as they were.
C10_IterateFrame ==
    [][last'.op = "iterate" =>
            /\ records' = records
            /\ num_records' = num_records
            /\ next_to_replace' = next_to_replace
            /\ k' = k
            /\ \A i \in MedoidIdx : i >= k => medoids'[i] = medoids[i]
            /\ \A j \in RecordIdx : j >= num_records => classes'[j] = classes[j]]_vars

\* iterate ran while a centroid past k held a stored value and a record slot
\* was still unused
C10_Witness ==
    /\ last.op = "iterate"
    /\ k < max_k /\ medoids[k] # Zero
    /\ num_records > 0 /\ num_records < max_records
====
